---- MODULE Spec2Model ----
(***************************************************************************)
(* Connection and message lifecycle engine of go-mp-server.                *)
(*                                                                         *)
(* The repository holds two server engines, and the model holds both; the  *)
(* field impl of cfg says which one a behaviour runs:                      *)
(*   "generic"  Server[T, M] of src/unnamed/part_004 (the same engine,     *)
(*              without the factories, is src/pkg/server/server.go):       *)
(*              registry conns is a sync.Map keyed by the connection,      *)
(*              Broadcast walks it in the caller's task;                   *)
(*   "legacy"   Server of src/pkg/server/client.go lines 440-607: registry  *)
(*              clients is a mutex-guarded map keyed by the remote address, *)
(*              Broadcast starts one goroutine per client.                 *)
(* Each task of the engine (accept loop, tick loop, per-connection loop,   *)
(* stream worker, broadcast delivery) is a small state machine whose steps *)
(* are the blocking points and callback boundaries of its code.            *)
(*                                                                         *)
(* The record cfg holds what the server was made with: the engine, the     *)
(* application, the tick rate and the callback slots the application set.  *)
(* Its field app says which application a behaviour runs; the first three  *)
(* set all their callbacks and make up Spec:                               *)
(*   "fanout"   calls Start once and Stop once, and calls Broadcast from   *)
(*              the tick callback and from the message callback (as the    *)
(*              game server of src/examples/cmd/gameServer does);          *)
(*   "sender"   runs the legacy engine, calls Start once and Stop once,    *)
(*              and calls SendTo from the connect callback (as the server  *)
(*              of src/unnamed/part_005 does);                             *)
(*   "admin"    sends nothing; its factory, its connect callback and its   *)
(*              message callback may panic; it calls Stop a second time    *)
(*              (once the first call has cancelled) and calls Start again  *)
(*              after Stop has returned, while no Stop call is under way.  *)
(* The factory and the callbacks of "fanout" and "sender" return, and      *)
(* their peers open FanoutStreams streams on a connection and              *)
(* FanoutInbound in all; the peers of "admin" open MaxStreams on a         *)
(* connection and MaxInbound in all.                                       *)
(* An unrecovered panic ends the process (the engine has no recover):      *)
(* fault records it and no task takes a step after it.                     *)
(* The application "plain" sends nothing, sets any of its callback slots   *)
(* and has callbacks that return; it runs in the specifications of single  *)
(* concerns: PlainSpec (unset slots, message dispatch), TickRateSpec (the  *)
(* tick period for each tick rate), EnumSpec (GetClients during            *)
(* registrations), ClientSpec (the identifier of a client) and TwiceSpec   *)
(* (Start called a second time while the server runs).                     *)
(* clientsMutex is the lock of the legacy registry, closes counts the      *)
(* Close calls of each stream worker, loops2 holds the loops of a second   *)
(* Start.                                                                  *)
(***************************************************************************)
EXTENDS Integers, FiniteSets, Sequences, TLC

\* Bounds of the model.
MaxConns == 2        \* connections the transport hands to the accept loop
MaxStreams == 2      \* inbound streams a peer opens on one connection
FanoutStreams == 1   \* the same, when the application sends
MaxInbound == 2      \* inbound streams the peers open in all
FanoutInbound == 1   \* the same, when the application is not "admin"
MaxBroadcasts == 1   \* calls of Broadcast made by the application callbacks
MaxSends == 1        \* calls of SendTo made by the application callbacks

MaxSetIDs == 3       \* calls of SetID made on one client

Conns == 1..MaxConns
Streams == 1..MaxStreams
NoConn == 0

\* The callback slots of a server; the legacy engine has no tick callback.
Slots == {"onConn", "onDisc", "onMsg", "onTick"}
SlotsOf(i) == IF i = "generic" THEN Slots ELSE Slots \ {"onTick"}

\* time.Second in nanoseconds, and the tick rate of every example program.
Second == 1000000000
ExampleTickRate == 60

\* The tick rates of the model: the small ones around zero, the one of the
\* examples, and those around the number of nanoseconds in a second.
TickRates ==
    (-3..24) \cup {ExampleTickRate, Second - 1, Second, Second + 1, 2 * Second}

\* Go's integer division, which truncates toward zero (b # 0).
GoDiv(a, b) ==
    LET abs(x) == IF x < 0 THEN -x ELSE x
        q == abs(a) \div abs(b)
    IN  IF (a < 0) # (b < 0) THEN -q ELSE q

\* t := time.Second / time.Duration(tickRate), for a tick rate other than 0.
TickPeriod(rate) == GoDiv(Second, rate)

\* The identifiers an application gives its clients; NewClient leaves "".
IDs == {"", "ana", "bob", "cy"}

\* No GetClients call is under way.
NoWalk == [st |-> "idle", todo |-> {}, out |-> {}, hist |-> {}]

\* No SendTo call is under way.
\* No second pair of loops: Start was called once at most.  stale says that
\* the first tick loop waits in a select on the context of the first Start.
NoLoops == [accept |-> "none", tick |-> "none", pending |-> FALSE, stale |-> FALSE]

NoSend == [caller |-> NoConn, id |-> NoConn, to |-> NoConn, st |-> "idle", n |-> 0]

VARIABLES
    cfg,         \* what the server was made with and runs among (see below)
    fault,       \* <<kind, conn>>: the unrecovered panic that ended the process
    started,     \* Start has run
    startErr,    \* the error New / Start returned to its caller, or "none"
    cancelled,   \* s.ctx is cancelled (s.cancel() was called)
    stopPc,      \* the caller of Stop: "idle", "closing", "waiting", "returned"
    stop2Pc,     \* the caller of a second Stop: "idle", "waiting", "returned"
    restarted,   \* Start has run again after Stop returned
    wg,          \* s.wg, the WaitGroup counter
    acceptPc,    \* acceptLoop: "none", "running", "done"
    tickPc,      \* tickLoop: "none", "wait", "inTick", "done"
    tickPending, \* ticker.C (capacity 1) holds a tick
    connPc,      \* per connection: handleConnection / handleConn position
    closeErr,    \* per connection: who closed the session ("remote",
                 \* "local"), or "none" while it is open
    conns,       \* the registry: key -> connection (client), NoConn when absent
    clientsMutex, \* the connection whose task holds the registry's lock, or NoConn
    loops2,      \* the loops of a second Start made while the first ones run
    strm,        \* per connection and stream: the stream worker's position
    closes,      \* per connection and stream: the calls of Close its worker made
    onMsgCalls,  \* the message callbacks running: worker, client and type given
    bcs,         \* the Broadcast calls made so far, a sequence of records
    snd,         \* the SendTo call under way, and how many were made
    gc,          \* the GetClients call under way, or the last one made
    ids          \* per client SetID was called on: its ID field, the calls made

vars == <<cfg, fault, started, startErr,
          cancelled, stopPc, stop2Pc, restarted, wg, acceptPc,
          tickPc, tickPending, connPc, closeErr, conns, clientsMutex, loops2, strm, closes, onMsgCalls,
          bcs, snd, gc, ids>>

\* The fields of cfg, which no step changes:
\*   impl      which engine runs: "generic" or "legacy"
\*   app       which application runs: "fanout", "sender", "admin" or "plain"
\*   connKey   registry key of each connection (itself, or its remote address)
\*   tickRate  the tickRate / ticksPerSec given to New / NewServer
\*   tps       s.tps / s.tickInterfal, the ticker period in nanoseconds
\*   cbs       the callback slots the application has set
impl == cfg.impl
app == cfg.app
connKey == cfg.connKey
tickRate == cfg.tickRate
tps == cfg.tps
cbs == cfg.cbs

cfgVars == <<cfg>>
srvVars == <<started, startErr, cancelled, stopPc, stop2Pc, restarted>>
tickVars == <<tickPc, tickPending>>

----------------------------------------------------------------------------
\* Helpers over the state.

Running == fault[1] = "none"

\* Per connection: the transport session is open.
alive == [c \in Conns |-> closeErr[c] = "none"]

\* The clients the registry holds (values of the map).
Registered == {conns[k] : k \in Conns} \ {NoConn}

\* GetClients / GetClientByConn: the registry's values, one connection's client.
GetClients == Registered
GetClientByConn(c) == \E k \in Conns : conns[k] = c

\* s.clientsMutex of the legacy engine is free.  The generic registry is a
\* sync.Map, which has no lock a caller can hold between two operations.
MutexFree == impl = "legacy" => clientsMutex = NoConn

\* Variant of Unlock: the task of connection c releases the lock when
\* handleConn returns (a deferred Unlock), so it holds it in its callbacks.
UnlockDeferred(c) == c

\* s.clientsMutex.Unlock() by the task of connection c, which follows the
\* one map operation made under the lock and precedes the callback.
Unlock(c) == NoConn

\* The lock after a section of the task of connection c: Lock(), one map
\* operation, Unlock() in the legacy engine; untouched in the generic one.
AfterLocked(c) == IF impl = "legacy" THEN Unlock(c) ELSE clientsMutex

ConnTaskActive(c) == connPc[c] \notin {"unaccepted", "done"}
StreamTaskActive(c, s) == strm[c][s] \in {"reading", "inOnMsg"}

\* A task that calls Broadcast: the tick callback <<0, 0>> or the message
\* callback of stream s of connection c, <<c, s>>.
TickCaller == <<0, 0>>
Callers == {TickCaller} \cup (Conns \X Streams)

InFlight == {"pending", "opening", "writing"}
Attempted == {"writing", "ok", "failed"}

\* The caller is inside a Broadcast call that has not returned.
InBroadcast(t) == \E b \in DOMAIN bcs : bcs[b].caller = t /\ ~bcs[b].returned

\* Delivery goroutines of the legacy Broadcast that have not finished.
DeliveryTasks ==
    {<<b, c>> \in (DOMAIN bcs) \X Conns :
        impl = "legacy" /\ bcs[b].dl[c] \in InFlight}

\* Every task the server has spawned and that has not terminated.
ActiveTasks ==
    (IF acceptPc = "running" THEN 1 ELSE 0)
    + (IF tickPc \in {"wait", "inTick"} THEN 1 ELSE 0)
    + Cardinality({c \in Conns : ConnTaskActive(c)})
    + Cardinality({cs \in Conns \X Streams : StreamTaskActive(cs[1], cs[2])})
    + Cardinality(DeliveryTasks)

\* Whether a call of application code can panic: the factory and the
\* callbacks of the "admin" application can, those of the others return.
MayRaise == IF app = "admin" THEN BOOLEAN ELSE {FALSE}

\* Variant of SlotTest: the slot is called without being tested.
SlotTestMissing(slot) == "call"

\* if s.OnConn != nil { ... } and its like: a slot that is set is called, one
\* that is not is passed over.
SlotTest(slot) == IF slot \in cbs THEN "call" ELSE "skip"

\* The process after the engine has come to a slot on behalf of connection c:
\* calling a slot that holds no function is a nil call, which panics.
AtSlot(slot, c) ==
    IF SlotTest(slot) = "call" /\ slot \notin cbs
    THEN <<"nilcall", c>>
    ELSE fault

\* A GetClients call under way after a registry write: the new content is
\* one the registry had between the call and its return.
Observe(g, reg) ==
    IF g.st = "walking"
    THEN [g EXCEPT !.hist = @ \cup {{reg[k] : k \in Conns} \ {NoConn}}]
    ELSE g

\* A registry write seen by the Broadcast calls still walking the registry.
MarkChanged(q) ==
    [b \in DOMAIN q |->
        IF q[b].returned THEN q[b] ELSE [q[b] EXCEPT !.changed = TRUE]]

----------------------------------------------------------------------------
\* Construction.  New / NewServer leave a server that is not started; the
\* transport will offer MaxConns connections.  The generic engine keys the
\* registry by the connection handle, the legacy one by the peer's address,
\* which two connections can share (addresses are named in order of first use).

KeyChoices ==
    {f \in [Conns -> Conns] :
        \A c \in Conns : f[c] = c \/ \E d \in 1..(c - 1) : f[d] = f[c]}

\* The configurations in which the engines run the applications apps, made
\* with a tick rate of rates, with the callback slots of slotSets set.  The
\* tick period is computed by New / NewServer from the tick rate; a tick rate
\* of 0 makes that division panic and leaves no period.
Configs(engines, apps, rates, slotSets) ==
    {[impl |-> i, app |-> a, connKey |-> k, tickRate |-> r,
      tps |-> IF r = 0 THEN 0 ELSE TickPeriod(r), cbs |-> cb] :
        i \in engines, a \in apps, k \in KeyChoices, r \in rates,
        cb \in slotSets}

\* The server New / NewServer returns for the configuration chosen; the
\* panic of the division ends the process in the constructor.
Constructed ==
    /\ (impl = "generic" => connKey = [c \in Conns |-> c])
    /\ cbs \subseteq SlotsOf(impl)
    /\ fault = IF tickRate = 0 THEN <<"new", NoConn>> ELSE <<"none", NoConn>>
    /\ started = FALSE
    /\ startErr = "none"
    /\ cancelled = FALSE
    /\ stopPc = "idle"
    /\ stop2Pc = "idle"
    /\ restarted = FALSE
    /\ wg = 0
    /\ acceptPc = "none"
    /\ tickPc = "none"
    /\ tickPending = FALSE
    /\ connPc = [c \in Conns |-> "unaccepted"]
    /\ closeErr = [c \in Conns |-> "none"]
    /\ conns = [k \in Conns |-> NoConn]
    /\ clientsMutex = NoConn
    /\ loops2 = NoLoops
    /\ strm = [c \in Conns |-> [s \in Streams |-> "none"]]
    /\ closes = [c \in Conns |-> [s \in Streams |-> 0]]
    /\ onMsgCalls = {}
    /\ bcs = <<>>
    /\ snd = NoSend
    /\ gc = NoWalk
    /\ ids = <<>>

Init ==
    /\ cfg \in Configs({"generic", "legacy"}, {"fanout", "admin", "sender"},
                       {ExampleTickRate}, {Slots, SlotsOf("legacy")})
    /\ (app = "sender" => impl = "legacy")
    /\ cbs = SlotsOf(impl)
    /\ Constructed

----------------------------------------------------------------------------
\* Start and Stop.

\* Variant of StartFails: the tasks are spawned before the listener is made,
\* and the error is returned with them running.
StartFailsAfterSpawn ==
    /\ Running
    /\ ~started
    /\ stopPc = "idle"
    /\ startErr = "none"
    /\ startErr' = "listen"
    /\ wg' = wg + 2
    /\ acceptPc' = "running"
    /\ tickPc' = "wait"
    /\ UNCHANGED <<cfgVars, fault, started, cancelled, stopPc, stop2Pc,
                   restarted, tickPending, connPc, closeErr, conns, clientsMutex, loops2,
                   strm, closes, onMsgCalls, bcs, snd, gc, ids>>

\* The address cannot be bound or the listener cannot be made.  The generic
\* engine binds in New, which returns the error and no server; the legacy
\* engine binds in Start, which returns the error before it spawns anything.
StartFails ==
    /\ Running
    /\ ~started
    /\ stopPc = "idle"
    /\ startErr = "none"
    /\ startErr' = "listen"
    /\ UNCHANGED <<cfgVars, fault, started, cancelled, stopPc, stop2Pc,
                   restarted, wg, acceptPc, tickVars, connPc, closeErr,
                   conns, clientsMutex, loops2, strm, closes, onMsgCalls, bcs, snd, gc, ids>>

\* Start: derive the context (generic), then wg.Add(1); go acceptLoop();
\* wg.Add(1); go tickLoop().  The legacy Start first makes its listener and
\* can be called again after a failure; the generic Start needs the server
\* New returned.  The tick loop begins with time.NewTicker(s.tps), which
\* panics on a period that is not positive: the process ends.
Start ==
    /\ Running
    /\ ~started
    /\ stopPc = "idle"
    /\ impl = "generic" => startErr = "none"
    /\ started' = TRUE
    /\ startErr' = "none"
    /\ wg' = wg + 2
    /\ acceptPc' = "running"
    /\ tickPc' = "wait"
    /\ fault' = IF tps <= 0 THEN <<"ticker", NoConn>> ELSE fault
    /\ UNCHANGED <<cfgVars, cancelled, stopPc, stop2Pc, restarted,
                   tickPending, connPc, closeErr, conns, clientsMutex, loops2,
                   strm, closes, onMsgCalls, bcs, snd, gc, ids>>

\* Start is called again while the server runs: the generic Start tests
\* nothing, replaces s.ctx and s.cancel by a new context and starts a second
\* accept loop and a second tick loop.  The first tick loop, if it waits in
\* its select, waits on the Done channel it read before or after the write
\* of s.ctx (the two are not ordered): on the old context or on the new one.
StartAgain ==
    /\ Running
    /\ impl = "generic"
    /\ started
    /\ stopPc = "idle"
    /\ loops2 = NoLoops
    /\ wg' = wg + 2
    /\ \E old \in (IF tickPc = "wait" THEN BOOLEAN ELSE {FALSE}) :
        loops2' = [accept |-> "running", tick |-> "wait", pending |-> FALSE,
                   stale |-> old]
    /\ UNCHANGED <<cfgVars, fault, srvVars, acceptPc, tickVars, connPc, closeErr,
                   conns, clientsMutex, strm, closes, onMsgCalls, bcs, snd, gc, ids>>

\* Stop on a server that was never started: s.cancel is nil in the generic
\* engine and s.listner is nil in the legacy one; the call panics.
StopUnstarted ==
    /\ Running
    /\ ~started
    /\ stopPc = "idle"
    /\ fault' = <<"stop", NoConn>>
    /\ cancelled' = (impl = "legacy")
    /\ UNCHANGED <<cfgVars, started, startErr, stopPc, stop2Pc, restarted, wg, acceptPc,
                   tickVars, connPc, closeErr, conns, clientsMutex, loops2, strm, closes, onMsgCalls,
                   bcs, snd, gc, ids>>

\* Stop, first statements: s.cancel(); s.ln.Close().
StopCancel ==
    /\ Running
    /\ started
    /\ stopPc = "idle"
    /\ cancelled' = TRUE
    /\ stopPc' = IF impl = "legacy" THEN "closing" ELSE "waiting"
    /\ UNCHANGED <<cfgVars, fault, started, startErr, stop2Pc, restarted, wg, acceptPc,
                   tickVars, connPc, closeErr, conns, clientsMutex, loops2, strm, closes, onMsgCalls,
                   bcs, snd, gc, ids>>

\* Stop of the legacy engine: under the read lock, CloseWithError on the
\* connection of every registered client.
StopCloseConns ==
    /\ Running
    /\ impl = "legacy"
    /\ stopPc = "closing"
    /\ MutexFree
    /\ closeErr' = [c \in Conns |->
                        IF alive[c] /\ c \in Registered
                        THEN "local" ELSE closeErr[c]]
    /\ stopPc' = "waiting"
    /\ UNCHANGED <<cfgVars, fault, started, startErr, cancelled, stop2Pc, restarted, wg,
                   acceptPc, tickVars, connPc, conns, clientsMutex, loops2, strm, closes, onMsgCalls, bcs,
                   snd, gc, ids>>

\* Variant of StopReturn: Stop returns without waiting for the tasks.
StopReturnUnjoined ==
    /\ Running
    /\ stopPc = "waiting"
    /\ stopPc' = "returned"
    /\ UNCHANGED <<cfgVars, fault, started, startErr, cancelled, stop2Pc, restarted, wg,
                   acceptPc, tickVars, connPc, closeErr,
                   conns, clientsMutex, loops2, strm, closes, onMsgCalls, bcs, snd, gc, ids>>

\* Stop, last statement: s.wg.Wait() returns once the counter is zero.
StopReturn ==
    /\ Running
    /\ stopPc = "waiting"
    /\ wg = 0
    /\ stopPc' = "returned"
    /\ UNCHANGED <<cfgVars, fault, started, startErr, cancelled, stop2Pc, restarted, wg,
                   acceptPc, tickVars, connPc, closeErr,
                   conns, clientsMutex, loops2, strm, closes, onMsgCalls, bcs, snd, gc, ids>>

\* Variant of StopAgain: the second call panics (as a second close of a
\* channel would).
StopAgainFaults ==
    /\ Running
    /\ app = "admin"
    /\ stopPc # "idle"
    /\ stop2Pc = "idle"
    /\ fault' = <<"stop", NoConn>>
    /\ stop2Pc' = "waiting"
    /\ UNCHANGED <<cfgVars, started, startErr, cancelled, stopPc, restarted, wg,
                   acceptPc, tickVars, connPc, closeErr,
                   conns, clientsMutex, loops2, strm, closes, onMsgCalls, bcs, snd, gc, ids>>

\* A second call of Stop, made once the first has cancelled: s.cancel() and
\* s.ln.Close() again (a cancelled context stays cancelled, a closed listener
\* stays closed; after a new Start the generic call cancels the new context),
\* then, in the legacy engine, CloseWithError on every registered client.
StopAgain ==
    /\ Running
    /\ app = "admin"
    /\ stopPc # "idle"
    /\ stop2Pc = "idle"
    /\ MutexFree
    /\ cancelled' = TRUE
    /\ closeErr' = [c \in Conns |->
                        IF alive[c] /\ impl = "legacy" /\ c \in Registered
                        THEN "local" ELSE closeErr[c]]
    /\ stop2Pc' = "waiting"
    /\ UNCHANGED <<cfgVars, fault, started, startErr, stopPc, restarted, wg, acceptPc,
                   tickVars, connPc, conns, clientsMutex, loops2, strm, closes, onMsgCalls, bcs, snd, gc, ids>>

\* The second call's s.wg.Wait() returns once the counter is zero.
StopAgainReturn ==
    /\ Running
    /\ stop2Pc = "waiting"
    /\ wg = 0
    /\ stop2Pc' = "returned"
    /\ UNCHANGED <<cfgVars, fault, started, startErr, cancelled, stopPc, restarted, wg,
                   acceptPc, tickVars, connPc, closeErr,
                   conns, clientsMutex, loops2, strm, closes, onMsgCalls, bcs, snd, gc, ids>>

\* Start is called again after Stop has returned.  The generic Start derives
\* a new context, so s.ctx is no longer cancelled; the legacy context is made
\* once, in NewServer, and stays cancelled.  Both start an accept loop and a
\* tick loop (with a new ticker) again.
Restart ==
    /\ Running
    /\ app = "admin"
    /\ stopPc = "returned"
    /\ stop2Pc # "waiting"
    /\ ~restarted
    /\ restarted' = TRUE
    /\ cancelled' = (impl = "legacy")
    /\ wg' = wg + 2
    /\ acceptPc' = "running"
    /\ tickPc' = "wait"
    /\ tickPending' = FALSE
    /\ UNCHANGED <<cfgVars, fault, started, startErr, stopPc, stop2Pc, connPc,
                   closeErr, conns, clientsMutex, loops2, strm, closes, onMsgCalls, bcs, snd, gc, ids>>

----------------------------------------------------------------------------
\* acceptLoop.

\* Variant of AcceptConn: the loop starts a task again for a connection
\* whose task has ended.
AcceptConnAgain(c) ==
    /\ Running
    /\ acceptPc = "running"
    /\ connPc[c] \in {"unaccepted", "done"}
    /\ wg' = wg + 1
    /\ connPc' = [connPc EXCEPT ![c] = IF impl = "generic" THEN "factory" ELSE "store"]
    /\ UNCHANGED <<cfgVars, fault, srvVars, acceptPc, tickVars, closeErr, conns, clientsMutex, loops2, strm, closes, onMsgCalls, bcs, snd, gc, ids>>

\* Accept returned a connection: wg.Add(1); go handleConnection(conn).  The
\* generic task starts at the client factory; the legacy one builds its
\* Client inline and starts at the registration.
AcceptConn(c) ==
    /\ Running
    /\ acceptPc = "running"
    /\ connPc[c] = "unaccepted"
    /\ wg' = wg + 1
    /\ connPc' = [connPc EXCEPT ![c] = IF impl = "generic" THEN "factory" ELSE "store"]
    /\ UNCHANGED <<cfgVars, fault, srvVars, acceptPc, tickVars, closeErr, conns, clientsMutex, loops2, strm, closes, onMsgCalls, bcs, snd, gc, ids>>

\* Accept returned an error and s.ctx is done: return (deferred wg.Done()).
AcceptExit ==
    /\ Running
    /\ acceptPc = "running"
    /\ cancelled
    /\ acceptPc' = "done"
    /\ wg' = wg - 1
    /\ UNCHANGED <<cfgVars, fault, srvVars, tickVars, connPc, closeErr, conns, clientsMutex, loops2, strm, closes, onMsgCalls, bcs, snd, gc, ids>>

----------------------------------------------------------------------------
\* tickLoop.

\* The ticker sends on ticker.C, a channel of capacity one: a tick that finds
\* the channel full is dropped.  The legacy loop takes its ticks in an empty
\* case, which changes nothing: the model holds no tick for it.
TimerFire ==
    /\ Running
    /\ impl = "generic"
    /\ tickPc \in {"wait", "inTick"}
    /\ ~tickPending
    /\ tickPending' = TRUE
    /\ UNCHANGED <<cfgVars, fault, srvVars, wg, acceptPc, tickPc, connPc,
                   closeErr, conns, clientsMutex, loops2, strm, closes, onMsgCalls, bcs, snd, gc, ids>>

\* Variant of TickFire: taking a tick leaves it in the channel.
TickFireKeepsTick ==
    /\ Running
    /\ tickPc = "wait"
    /\ tickPending
    /\ tickPc' = "inTick"
    /\ UNCHANGED <<cfgVars, fault, srvVars, wg, acceptPc, tickPending, connPc,
                   closeErr, conns, clientsMutex, loops2, strm, closes, onMsgCalls, bcs, snd, gc, ids>>

\* case <-ticker.C: the generic engine calls TickFn(s) if it is set.
TickFire ==
    /\ Running
    /\ tickPc = "wait"
    /\ tickPending
    /\ tickPending' = FALSE
    /\ tickPc' = "inTick"
    /\ loops2' = [loops2 EXCEPT !.stale = FALSE]
    /\ fault' = AtSlot("onTick", NoConn)
    /\ UNCHANGED <<cfgVars, srvVars, wg, acceptPc, connPc, closeErr, conns, clientsMutex,
                   strm, closes, onMsgCalls, bcs, snd, gc, ids>>

\* TickFn returns (after any Broadcast it called has returned).
TickReturn ==
    /\ Running
    /\ tickPc = "inTick"
    /\ ~InBroadcast(TickCaller)
    /\ tickPc' = "wait"
    /\ UNCHANGED <<cfgVars, fault, srvVars, wg, acceptPc, tickPending, connPc,
                   closeErr, conns, clientsMutex, loops2, strm, closes, onMsgCalls, bcs, snd, gc, ids>>

\* case <-s.ctx.Done(): return (deferred ticker.Stop() and wg.Done()).  The
\* context is the one the loop read when it entered the select.
TickExit ==
    /\ Running
    /\ tickPc = "wait"
    /\ cancelled
    /\ ~loops2.stale
    /\ tickPc' = "done"
    /\ wg' = wg - 1
    /\ UNCHANGED <<cfgVars, fault, srvVars, acceptPc, tickPending, connPc,
                   closeErr, conns, clientsMutex, loops2, strm, closes, onMsgCalls, bcs, snd, gc, ids>>

\* The loops of a second Start run the same code on the same fields.  The
\* second accept loop: Accept returned an error and s.ctx is done.
Accept2Exit ==
    /\ Running
    /\ loops2.accept = "running"
    /\ cancelled
    /\ loops2' = [loops2 EXCEPT !.accept = "done"]
    /\ wg' = wg - 1
    /\ UNCHANGED <<cfgVars, fault, srvVars, acceptPc, tickVars, connPc, closeErr,
                   conns, clientsMutex, strm, closes, onMsgCalls, bcs, snd, gc, ids>>

\* The ticker of the second tick loop sends on its own channel.
Timer2Fire ==
    /\ Running
    /\ loops2.tick \in {"wait", "inTick"}
    /\ ~loops2.pending
    /\ loops2' = [loops2 EXCEPT !.pending = TRUE]
    /\ UNCHANGED <<cfgVars, fault, srvVars, wg, acceptPc, tickVars, connPc, closeErr,
                   conns, clientsMutex, strm, closes, onMsgCalls, bcs, snd, gc, ids>>

\* The second tick loop takes a tick and calls TickFn(s) if it is set.
Tick2Fire ==
    /\ Running
    /\ loops2.tick = "wait"
    /\ loops2.pending
    /\ loops2' = [loops2 EXCEPT !.pending = FALSE, !.tick = "inTick"]
    /\ fault' = AtSlot("onTick", NoConn)
    /\ UNCHANGED <<cfgVars, srvVars, wg, acceptPc, tickVars, connPc, closeErr,
                   conns, clientsMutex, strm, closes, onMsgCalls, bcs, snd, gc, ids>>

\* TickFn returns in the second tick loop.
Tick2Return ==
    /\ Running
    /\ loops2.tick = "inTick"
    /\ loops2' = [loops2 EXCEPT !.tick = "wait"]
    /\ UNCHANGED <<cfgVars, fault, srvVars, wg, acceptPc, tickVars, connPc, closeErr,
                   conns, clientsMutex, strm, closes, onMsgCalls, bcs, snd, gc, ids>>

\* case <-s.ctx.Done() in the second tick loop: return.
Tick2Exit ==
    /\ Running
    /\ loops2.tick = "wait"
    /\ cancelled
    /\ loops2' = [loops2 EXCEPT !.tick = "done"]
    /\ wg' = wg - 1
    /\ UNCHANGED <<cfgVars, fault, srvVars, acceptPc, tickVars, connPc, closeErr,
                   conns, clientsMutex, strm, closes, onMsgCalls, bcs, snd, gc, ids>>

----------------------------------------------------------------------------
\* handleConnection (generic) and handleConn (legacy).

\* Variant of ClientFactoryCall: the task registers the connection before it
\* calls the factory, so a factory that raises leaves an entry behind.
ClientFactoryCallAfterStore(c) ==
    /\ Running
    /\ connPc[c] = "factory"
    /\ conns' = [conns EXCEPT ![connKey[c]] = c]
    /\ \E raises \in MayRaise :
        IF raises
        THEN /\ fault' = <<"factory", c>>
             /\ UNCHANGED connPc
        ELSE /\ connPc' = [connPc EXCEPT ![c] = "store"]
             /\ UNCHANGED fault
    /\ UNCHANGED <<cfgVars, srvVars, wg, acceptPc, tickVars, closeErr, clientsMutex, loops2,
                   strm, closes, onMsgCalls, bcs, snd, gc, ids>>

\* c := s.ClientFactory(conn).  The factory is application code: it returns a
\* client or panics, and nothing in the engine recovers a panic, so a panic
\* ends the process.
ClientFactoryCall(c) ==
    /\ Running
    /\ connPc[c] = "factory"
    /\ \E raises \in MayRaise :
        IF raises
        THEN /\ fault' = <<"factory", c>>
             /\ UNCHANGED connPc
        ELSE /\ connPc' = [connPc EXCEPT ![c] = "store"]
             /\ UNCHANGED fault
    /\ UNCHANGED <<cfgVars, srvVars, wg, acceptPc, tickVars, closeErr, conns, clientsMutex, loops2, strm, closes, onMsgCalls, bcs, snd, gc, ids>>

\* s.conns.Store(conn, c) / s.clients[client.ID] = client, then the connect
\* callback is called if it is set.  A store under a key that is present
\* replaces the entry.
ConnStore(c) ==
    /\ Running
    /\ connPc[c] = "store"
    /\ MutexFree
    /\ conns' = [conns EXCEPT ![connKey[c]] = c]
    /\ clientsMutex' = AfterLocked(c)
    /\ bcs' = MarkChanged(bcs)
    /\ connPc' = [connPc EXCEPT ![c] = "inOnConn"]
    /\ fault' = AtSlot("onConn", c)
    /\ gc' = Observe(gc, conns')
    /\ UNCHANGED <<cfgVars, srvVars, wg, acceptPc, tickVars, closeErr, loops2,
                   strm, closes, onMsgCalls, snd, ids>>

\* OnConn returns (after any SendTo it called has returned); the task derives
\* its stream context and enters the loop.
ConnOnConnReturn(c) ==
    /\ Running
    /\ connPc[c] = "inOnConn"
    /\ snd.caller # c
    /\ connPc' = [connPc EXCEPT ![c] = "loop"]
    /\ UNCHANGED <<cfgVars, fault, srvVars, wg, acceptPc, tickVars, closeErr, conns, clientsMutex, loops2, strm, closes, onMsgCalls, bcs, snd, gc, ids>>

\* OnConn panics: nothing recovers it, the process ends.
ConnOnConnRaise(c) ==
    /\ Running
    /\ TRUE \in MayRaise
    /\ "onConn" \in cbs
    /\ connPc[c] = "inOnConn"
    /\ fault' = <<"onConn", c>>
    /\ UNCHANGED <<cfgVars, srvVars, wg, acceptPc, tickVars, connPc,
                   closeErr, conns, clientsMutex, loops2, strm, closes, onMsgCalls, bcs, snd, gc, ids>>

\* The streams of a connection are numbered in the order they are accepted:
\* the next one, or 0 when the peer opens no further stream.
NextStream(c) ==
    LET free == {s \in Streams : strm[c][s] = "none"
                    /\ (app # "admin" => s <= FanoutStreams)}
    IN  IF free = {} THEN 0 ELSE CHOOSE s \in free : \A r \in free : s <= r

\* The inbound streams the peers of the application open in all.
InboundLimit == IF app = "admin" THEN MaxInbound ELSE FanoutInbound

\* The inbound streams accepted so far, over all connections.
StreamsOpened ==
    Cardinality({cs \in Conns \X Streams : strm[cs[1]][cs[2]] # "none"})

\* Variant of StreamAccept: the loop handles a stream itself and accepts the
\* next one only when no worker of the connection is running.
StreamAcceptSerial(c, s) ==
    /\ Running
    /\ connPc[c] = "loop"
    /\ alive[c]
    /\ s = NextStream(c)
    /\ StreamsOpened < InboundLimit
    /\ \A r \in Streams : ~StreamTaskActive(c, r)
    /\ strm' = [strm EXCEPT ![c][s] = "reading"]
    /\ wg' = wg + 1
    /\ UNCHANGED <<cfgVars, fault, srvVars, acceptPc, tickVars, connPc,
                   closeErr, conns, clientsMutex, loops2, closes, onMsgCalls, bcs, snd, gc, ids>>

\* Variant of StreamAccept: the stream loop runs beside the connect callback
\* instead of after it.
StreamAcceptEarly(c, s) ==
    /\ Running
    /\ connPc[c] \in {"inOnConn", "loop"}
    /\ alive[c]
    /\ s = NextStream(c)
    /\ StreamsOpened < InboundLimit
    /\ strm' = [strm EXCEPT ![c][s] = "reading"]
    /\ wg' = wg + 1
    /\ UNCHANGED <<cfgVars, fault, srvVars, acceptPc, tickVars, connPc,
                   closeErr, conns, clientsMutex, loops2, closes, onMsgCalls, bcs, snd, gc, ids>>

\* conn.AcceptStream(ctx) returned a stream: wg.Add(1); go handleStream(...).
\* A closed connection reports its error first; an open one hands over a
\* stream the peer has opened, whether or not ctx is already done.
StreamAccept(c, s) ==
    /\ Running
    /\ connPc[c] = "loop"
    /\ alive[c]
    /\ s = NextStream(c)
    /\ StreamsOpened < InboundLimit
    /\ strm' = [strm EXCEPT ![c][s] = "reading"]
    /\ wg' = wg + 1
    /\ UNCHANGED <<cfgVars, fault, srvVars, acceptPc, tickVars, connPc,
                   closeErr, conns, clientsMutex, loops2, closes, onMsgCalls, bcs, snd, gc, ids>>

\* What the task does with the registry when AcceptStream fails, before it
\* calls the disconnect callback: the legacy engine deletes its key, the
\* generic engine leaves the entry in place.
RegistryAtDisconnect(c) ==
    IF impl = "legacy" THEN [conns EXCEPT ![connKey[c]] = NoConn] ELSE conns

\* Variant of RegistryAfterDisconnect: the task returns without a delete.
RegistryKeptAfterDisconnect(c) == conns

\* What it does after the disconnect callback has returned: the generic
\* engine deletes the connection's entry, the legacy one has nothing left.
RegistryAfterDisconnect(c) ==
    IF impl = "generic" THEN [conns EXCEPT ![connKey[c]] = NoConn] ELSE conns

\* Variant of AcceptStreamErrors: a shutdown is reported with a nil error.
AcceptStreamErrorsNilOnShutdown(c) ==
    (IF alive[c] THEN {} ELSE {closeErr[c]})
        \cup (IF cancelled THEN {"nil"} ELSE {})

\* The errors conn.AcceptStream(ctx) can return now: the close error of a
\* closed session ("remote": the peer closed, the transport failed, the idle
\* timeout ran out; "local": the server closed it), ctx.Err() of a cancelled
\* context ("canceled").  With both at hand either can come back.
AcceptStreamErrors(c) ==
    (IF alive[c] THEN {} ELSE {closeErr[c]})
        \cup (IF cancelled THEN {"canceled"} ELSE {})

\* conn.AcceptStream(ctx) returned an error (the connection is closed or the
\* context is done): the disconnect callback is called, if it is set, with
\* one of the errors AcceptStream can return now.
StreamAcceptErr(c) ==
    /\ Running
    /\ connPc[c] = "loop"
    /\ AcceptStreamErrors(c) # {}
    /\ MutexFree
    /\ conns' = RegistryAtDisconnect(c)
    /\ clientsMutex' = AfterLocked(c)
    /\ bcs' = IF conns' = conns THEN bcs ELSE MarkChanged(bcs)
    /\ connPc' = [connPc EXCEPT ![c] = "inOnDisc"]
    /\ fault' = AtSlot("onDisc", c)
    /\ gc' = Observe(gc, conns')
    /\ UNCHANGED <<cfgVars, srvVars, wg, acceptPc, tickVars, closeErr, loops2,
                   strm, closes, onMsgCalls, snd, ids>>

\* OnDisc returns; the task returns (deferred cancel() and wg.Done()).
ConnOnDiscReturn(c) ==
    /\ Running
    /\ connPc[c] = "inOnDisc"
    /\ conns' = RegistryAfterDisconnect(c)
    /\ bcs' = IF conns' = conns THEN bcs ELSE MarkChanged(bcs)
    /\ connPc' = [connPc EXCEPT ![c] = "done"]
    /\ wg' = wg - 1
    /\ gc' = Observe(gc, conns')
    /\ UNCHANGED <<cfgVars, fault, srvVars, acceptPc, tickVars, closeErr, clientsMutex, loops2,
                   strm, closes, onMsgCalls, snd, ids>>

\* The transport session ends: the peer closes, an error, the idle timeout.
PeerClose(c) ==
    /\ Running
    /\ connPc[c] # "unaccepted"
    /\ alive[c]
    /\ closeErr' = [closeErr EXCEPT ![c] = "remote"]
    /\ UNCHANGED <<cfgVars, fault, srvVars, wg, acceptPc, tickVars, connPc,
                   conns, clientsMutex, loops2, strm, closes, onMsgCalls, bcs, snd, gc, ids>>

----------------------------------------------------------------------------
\* handleStream (generic) and the stream goroutine of handleConn (legacy).

\* What io.ReadAll can give a worker: an error, or the bytes the peer sent,
\* which are an encoded object (its members in the order sent) or are not.
\* A member is named by the field it is decoded into: "type" is the json
\* key type of the generic Message and the msgpack key t of the legacy one.
ReadError == [eof |-> FALSE, wf |-> FALSE, members |-> <<>>]
Malformed == [eof |-> TRUE, wf |-> FALSE, members |-> <<>>]
Ping == [eof |-> TRUE, wf |-> TRUE,
         members |-> <<<<"type", "ping">>, <<"data", "d">>>>]
Move == [eof |-> TRUE, wf |-> TRUE,
         members |-> <<<<"data", "d">>, <<"type", "move">>>>]
NoType == [eof |-> TRUE, wf |-> TRUE, members |-> <<<<"data", "d">>>>]

\* The reads of the model: the peers of the "plain" application send
\* messages of two types and one without a type, the others send one type.
Inbound ==
    IF app = "plain"
    THEN {ReadError, Malformed, Ping, Move, NoType}
    ELSE {ReadError, Malformed, Ping}

\* The value Unmarshal leaves in the field of a key: the one of the last
\* member of that key, or the field's zero value.
RECURSIVE Field(_, _, _)
Field(members, key, zero) ==
    IF members = <<>>
    THEN zero
    ELSE Field(Tail(members), key,
               IF Head(members)[1] = key THEN Head(members)[2] ELSE zero)

\* Variant of Unmarshal: the type member is not decoded.
UnmarshalTypeless(data) ==
    [ok |-> data.wf,
     msg |-> [Type |-> "", Data |-> Field(data.members, "data", "")]]

\* json.Unmarshal(data, &baseMsg) / msgpack.Unmarshal(data, &msg) into a
\* Message{Type, Data}: an error on bytes that are no encoded object.
Unmarshal(data) ==
    [ok |-> data.wf,
     msg |-> [Type |-> Field(data.members, "type", ""),
              Data |-> Field(data.members, "data", "")]]

\* s.MessageFactory(&baseMsg): the message the application builds from the
\* decoded one; NewMessage and the examples' factories keep its type.
MessageFactory(msg) == msg

\* Variant of StreamClose: the worker returns without closing its stream.
StreamCloseSkipped(c, s) == closes

\* stream.Close() by the worker of stream s of connection c: the deferred
\* call of handleStream, the st.Close() on each path of the legacy worker.
StreamClose(c, s) == [closes EXCEPT ![c][s] = @ + 1]

\* Variant of StreamRead: a read error or a decode error closes the
\* connection of the stream.
StreamReadAbortCloses(c, s) ==
    /\ Running
    /\ strm[c][s] = "reading"
    /\ \E good \in BOOLEAN :
        IF good /\ alive[c]
        THEN /\ strm' = [strm EXCEPT ![c][s] = "inOnMsg"]
             /\ onMsgCalls' = onMsgCalls \cup {[w |-> <<c, s>>, cl |-> c, ty |-> "ping"]}
             /\ UNCHANGED <<wg, closeErr, closes>>
        ELSE /\ strm' = [strm EXCEPT ![c][s] = "aborted"]
             /\ closes' = StreamClose(c, s)
             /\ closeErr' = [closeErr EXCEPT ![c] = "local"]
             /\ wg' = wg - 1
             /\ UNCHANGED onMsgCalls
    /\ UNCHANGED <<cfgVars, fault, srvVars, acceptPc, tickVars, connPc,
                   conns, clientsMutex, loops2, bcs, snd, gc, ids>>

\* io.ReadAll and the decoding end, the read having given data.  With a full,
\* decodable message the message callback is called, if it is set, with the
\* client of the connection and the message the factory made; a read error
\* (any read on a closed session) or a decode error returns (deferred
\* wg.Done()) and leaves the worker "aborted".
StreamReadData(c, s, data) ==
    /\ Running
    /\ strm[c][s] = "reading"
    /\ IF alive[c] /\ data.eof /\ Unmarshal(data).ok
       THEN /\ strm' = [strm EXCEPT ![c][s] = "inOnMsg"]
            /\ onMsgCalls' =
                    IF SlotTest("onMsg") = "call"
                    THEN onMsgCalls \cup
                         {[w |-> <<c, s>>, cl |-> c,
                           ty |-> MessageFactory(Unmarshal(data).msg).Type]}
                    ELSE onMsgCalls
            /\ fault' = AtSlot("onMsg", c)
            /\ UNCHANGED <<wg, closes>>
       ELSE /\ strm' = [strm EXCEPT ![c][s] = "aborted"]
            /\ closes' = StreamClose(c, s)
            /\ wg' = wg - 1
            /\ UNCHANGED <<onMsgCalls, fault>>
    /\ UNCHANGED <<cfgVars, srvVars, acceptPc, tickVars, connPc,
                   closeErr, conns, clientsMutex, loops2, bcs, snd, gc, ids>>

\* The worker of stream s of connection c ends its read.
StreamRead(c, s) == \E data \in Inbound : StreamReadData(c, s, data)

\* OnMsg returns (after any Broadcast it called has returned); the stream is
\* closed and the worker returns.
OnMsgReturn(c, s) ==
    /\ Running
    /\ strm[c][s] = "inOnMsg"
    /\ ~InBroadcast(<<c, s>>)
    /\ strm' = [strm EXCEPT ![c][s] = "done"]
    /\ closes' = StreamClose(c, s)
    /\ onMsgCalls' = {x \in onMsgCalls : x.w # <<c, s>>}
    /\ wg' = wg - 1
    /\ UNCHANGED <<cfgVars, fault, srvVars, acceptPc, tickVars, connPc,
                   closeErr, conns, clientsMutex, loops2, bcs, snd, gc, ids>>

\* OnMsg panics in the stream worker: nothing recovers it, the process ends.
OnMsgRaise(c, s) ==
    /\ Running
    /\ TRUE \in MayRaise
    /\ "onMsg" \in cbs
    /\ strm[c][s] = "inOnMsg"
    /\ fault' = <<"onMsg", c>>
    /\ UNCHANGED <<cfgVars, srvVars, wg, acceptPc, tickVars, connPc,
                   closeErr, conns, clientsMutex, loops2, strm, closes, onMsgCalls, bcs, snd, gc, ids>>

----------------------------------------------------------------------------
\* Broadcast.

\* The task t is inside an application callback, where it may call Broadcast.
InCallback(t) ==
    IF t = TickCaller
    THEN tickPc = "inTick" /\ "onTick" \in cbs
    ELSE strm[t[1]][t[2]] = "inOnMsg" /\ "onMsg" \in cbs

\* Variant of RangeEntries: the walk misses one entry of the registry.
RangeEntriesSkipOne ==
    {c \in Registered : \E d \in Registered : d > c}

\* The entries the walk over the registry visits: s.conns.Range walks the
\* entries present when it starts, the legacy for-range runs under the read
\* lock.
RangeEntries == Registered

\* The deliveries of a call: none when the generic engine fails to encode
\* the message (json.Marshal fails, Broadcast logs and returns), else one
\* per entry.  The legacy engine encodes inside each delivery.
NewDeliveries(enc) ==
    [c \in Conns |->
        IF c \in RangeEntries /\ (enc \/ impl = "legacy") THEN "pending" ELSE "none"]

\* Broadcast is called from a callback.  The legacy call starts one goroutine
\* per client and returns; the generic call delivers in the caller's task.
BroadcastCall(t) ==
    /\ Running
    /\ app = "fanout"
    /\ InCallback(t)
    /\ ~InBroadcast(t)
    /\ Len(bcs) < MaxBroadcasts
    /\ MutexFree
    /\ \E enc \in BOOLEAN :
        bcs' = Append(bcs,
            [caller |-> t, enc |-> enc, reg |-> Registered,
             dl |-> NewDeliveries(enc),
             returned |-> (impl = "legacy" \/ ~enc),
             changed |-> FALSE])
    /\ UNCHANGED <<cfgVars, fault, srvVars, wg, acceptPc, tickVars, connPc,
                   closeErr, conns, clientsMutex, loops2, strm, closes, onMsgCalls, snd, gc, ids>>

\* p.streamMtx of client c is held by a delivery that is inside SendPacked.
StreamMtxHeld(c) == \E b \in DOMAIN bcs : bcs[b].dl[c] \in {"opening", "writing"}

\* SendPacked (legacy): p.streamMtx.Lock().
DeliverLock(b, c) ==
    /\ Running
    /\ impl = "legacy"
    /\ bcs[b].dl[c] = "pending"
    /\ ~StreamMtxHeld(c)
    /\ bcs' = [bcs EXCEPT ![b].dl[c] = "opening"]
    /\ UNCHANGED <<cfgVars, fault, srvVars, wg, acceptPc, tickVars, connPc,
                   closeErr, conns, clientsMutex, loops2, strm, closes, onMsgCalls, snd, gc, ids>>

\* Variant of OpenFailed: the failed open ends the walk (return false), the
\* entries not yet visited get no delivery.
OpenFailedAbort(d, c) ==
    [x \in Conns |->
        IF x = c THEN "failed" ELSE IF d[x] = "pending" THEN "skipped" ELSE d[x]]

\* The deliveries of a call after the stream open for c failed: the error is
\* logged (generic, the walk goes on: return true) or dropped (legacy).
OpenFailed(d, c) == [d EXCEPT ![c] = "failed"]

\* The delivery to c may open its stream now: the generic walk is at an entry
\* (the previous write is over), the legacy goroutine holds the client's lock.
MayOpen(b, c) ==
    IF impl = "generic"
    THEN /\ ~bcs[b].returned
         /\ bcs[b].dl[c] = "pending"
         /\ \A d \in Conns : bcs[b].dl[d] # "writing"
    ELSE bcs[b].dl[c] = "opening"

\* conn.OpenStream() / p.Conn.OpenStreamSync(ctx) for one entry.  The generic
\* walk passes over an entry deleted since it started.  The open fails on a
\* closed connection and may fail on an open one (stream limit); the legacy
\* delivery also ends here when msgpack.Marshal fails.
DeliverOpen(b, c) ==
    /\ Running
    /\ MayOpen(b, c)
    /\ \E ok \in BOOLEAN :
        bcs' = [bcs EXCEPT ![b].dl =
            IF impl = "generic" /\ conns[connKey[c]] # c
            THEN [@ EXCEPT ![c] = "skipped"]
            ELSE IF ok /\ alive[c] /\ bcs[b].enc
                 THEN [@ EXCEPT ![c] = "writing"]
                 ELSE OpenFailed(@, c)]
    /\ UNCHANGED <<cfgVars, fault, srvVars, wg, acceptPc, tickVars, connPc,
                   closeErr, conns, clientsMutex, loops2, strm, closes, onMsgCalls, snd, gc, ids>>

\* str.Write(data) ends, with or without an error; the stream is closed.
DeliverWrite(b, c) ==
    /\ Running
    /\ bcs[b].dl[c] = "writing"
    /\ \E ok \in BOOLEAN :
        bcs' = [bcs EXCEPT ![b].dl[c] = IF ok /\ alive[c] THEN "ok" ELSE "failed"]
    /\ UNCHANGED <<cfgVars, fault, srvVars, wg, acceptPc, tickVars, connPc,
                   closeErr, conns, clientsMutex, loops2, strm, closes, onMsgCalls, snd, gc, ids>>

\* The generic walk is over: Broadcast returns to its caller.
BroadcastReturn(b) ==
    /\ Running
    /\ impl = "generic"
    /\ ~bcs[b].returned
    /\ \A c \in Conns : bcs[b].dl[c] \notin InFlight
    /\ bcs' = [bcs EXCEPT ![b].returned = TRUE]
    /\ UNCHANGED <<cfgVars, fault, srvVars, wg, acceptPc, tickVars, connPc,
                   closeErr, conns, clientsMutex, loops2, strm, closes, onMsgCalls, snd, gc, ids>>

----------------------------------------------------------------------------
\* SendTo (legacy engine), called by the "sender" application from its
\* connect callback.  No Broadcast delivery runs in that application, so the
\* client's streamMtx is free when SendPacked takes it.

\* Variant of SendToLookup: the result of the map lookup is not tested.
SendToLookupUnchecked(k) ==
    [to |-> conns[k], st |-> "pending"]

\* p, ok := s.clients[clientID] under the read lock: the client registered
\* under the identifier, or "client not found".
SendToLookup(k) ==
    IF conns[k] = NoConn
    THEN [to |-> NoConn, st |-> "notfound"]
    ELSE [to |-> conns[k], st |-> "pending"]

\* SendTo(clientID, v) is called in the connect callback of connection c.
SendToCall(c, k) ==
    /\ Running
    /\ impl = "legacy"
    /\ app = "sender"
    /\ "onConn" \in cbs
    /\ connPc[c] = "inOnConn"
    /\ snd.st = "idle"
    /\ snd.n < MaxSends
    /\ MutexFree
    /\ snd' = [caller |-> c, id |-> k, to |-> SendToLookup(k).to,
               st |-> SendToLookup(k).st, n |-> snd.n + 1]
    /\ UNCHANGED <<cfgVars, fault, srvVars, wg, acceptPc, tickVars, connPc,
                   closeErr, conns, clientsMutex, loops2, strm, closes, onMsgCalls, bcs,
                   gc, ids>>

\* SendPacked: p.Conn.OpenStreamSync(ctx) on the client found, then
\* msgpack.Marshal.  The open fails on a closed session and may fail or the
\* encoding may fail on an open one; the error is returned.
SendToOpen ==
    /\ Running
    /\ snd.st = "pending"
    /\ \E ok \in BOOLEAN :
        snd' = [snd EXCEPT !.st = IF ok /\ alive[snd.to] THEN "writing" ELSE "failed"]
    /\ UNCHANGED <<cfgVars, fault, srvVars, wg, acceptPc, tickVars, connPc,
                   closeErr, conns, clientsMutex, loops2, strm, closes, onMsgCalls, bcs,
                   gc, ids>>

\* SendPacked: stream.Write(b) ends, with or without an error.
SendToWrite ==
    /\ Running
    /\ snd.st = "writing"
    /\ \E ok \in BOOLEAN :
        snd' = [snd EXCEPT !.st = IF ok /\ alive[snd.to] THEN "ok" ELSE "failed"]
    /\ UNCHANGED <<cfgVars, fault, srvVars, wg, acceptPc, tickVars, connPc,
                   closeErr, conns, clientsMutex, loops2, strm, closes, onMsgCalls, bcs,
                   gc, ids>>

\* SendTo returns to the callback, with its error or nil.
SendToReturn ==
    /\ Running
    /\ snd.st \in {"notfound", "ok", "failed"}
    /\ snd' = [NoSend EXCEPT !.n = snd.n]
    /\ UNCHANGED <<cfgVars, fault, srvVars, wg, acceptPc, tickVars, connPc,
                   closeErr, conns, clientsMutex, loops2, strm, closes, onMsgCalls, bcs,
                   gc, ids>>

----------------------------------------------------------------------------
\* GetClients (generic engine), called by the application from a task of its
\* own while connections come and go.  s.conns.Range is no snapshot of the
\* map: it visits no key twice, and what it finds for a key stored or
\* deleted during the call is the mapping of that key at some moment of the
\* call.  The model visits the keys one by one, in any order, and reads at
\* each visit what the key maps to then.

\* GetClients is called: var clients []T, and the walk begins.
GetClientsCall ==
    /\ Running
    /\ impl = "generic"
    /\ gc.st = "idle"
    /\ gc' = [st |-> "walking", todo |-> Conns, out |-> {},
              hist |-> {Registered}]
    /\ UNCHANGED <<cfgVars, fault, srvVars, wg, acceptPc, tickVars, connPc,
                   closeErr, conns, clientsMutex, loops2, strm, closes, onMsgCalls, bcs, snd, ids>>

\* What the walk finds at key k: the client stored under it, if any.
Visited(k) == conns[k] # NoConn

\* The walk passes key k: clients = append(clients, client) for an entry.
GetClientsVisit(k) ==
    /\ Running
    /\ gc.st = "walking"
    /\ k \in gc.todo
    /\ gc' = [gc EXCEPT !.todo = @ \ {k},
                        !.out = IF Visited(k) THEN @ \cup {conns[k]} ELSE @]
    /\ UNCHANGED <<cfgVars, fault, srvVars, wg, acceptPc, tickVars, connPc,
                   closeErr, conns, clientsMutex, loops2, strm, closes, onMsgCalls, bcs, snd, ids>>

\* The walk is over: return clients.
GetClientsReturn ==
    /\ Running
    /\ gc.st = "walking"
    /\ gc.todo = {}
    /\ gc' = [gc EXCEPT !.st = "returned"]
    /\ UNCHANGED <<cfgVars, fault, srvVars, wg, acceptPc, tickVars, connPc,
                   closeErr, conns, clientsMutex, loops2, strm, closes, onMsgCalls, bcs, snd, ids>>

----------------------------------------------------------------------------
\* The Client of a connection and its identifier.

\* NewClient(conn): a client with the ID "".
NewClient(c) ==
    /\ c \notin DOMAIN ids
    /\ ids' = [d \in DOMAIN ids \cup {c} |->
                    IF d = c THEN [ID |-> "", n |-> 0] ELSE ids[d]]
    /\ UNCHANGED <<cfgVars, fault, srvVars, wg, acceptPc, tickVars, connPc,
                   closeErr, conns, clientsMutex, loops2, strm, closes, onMsgCalls, bcs, snd, gc>>

\* func (c *Client) GetID() string { return c.ID }
GetID(c) == ids[c].ID

\* func (c *Client) SetID(id string) { c.ID = id }; n counts the calls.
SetID(c, id) ==
    /\ c \in DOMAIN ids
    /\ ids[c].n < MaxSetIDs
    /\ ids' = [ids EXCEPT ![c] = [ID |-> id, n |-> @.n + 1]]
    /\ UNCHANGED <<cfgVars, fault, srvVars, wg, acceptPc, tickVars, connPc,
                   closeErr, conns, clientsMutex, loops2, strm, closes, onMsgCalls, bcs, snd, gc>>

----------------------------------------------------------------------------
\* The specification.

Next ==
    \/ Start
    \/ StartFails
    \/ StopUnstarted
    \/ StopCancel
    \/ StopCloseConns
    \/ StopReturn
    \/ StopAgain
    \/ StopAgainReturn
    \/ Restart
    \/ \E c \in Conns : AcceptConn(c)
    \/ AcceptExit
    \/ TimerFire
    \/ TickFire
    \/ TickReturn
    \/ TickExit
    \/ \E c \in Conns : ClientFactoryCall(c)
    \/ \E c \in Conns : ConnStore(c)
    \/ \E c \in Conns : ConnOnConnReturn(c)
    \/ \E c \in Conns : ConnOnConnRaise(c)
    \/ \E c \in Conns, s \in Streams : StreamAccept(c, s)
    \/ \E c \in Conns : StreamAcceptErr(c)
    \/ \E c \in Conns : ConnOnDiscReturn(c)
    \/ \E c \in Conns : PeerClose(c)
    \/ \E c \in Conns, s \in Streams : StreamRead(c, s)
    \/ \E c \in Conns, s \in Streams : OnMsgReturn(c, s)
    \/ \E c \in Conns, s \in Streams : OnMsgRaise(c, s)
    \/ \E t \in Callers : BroadcastCall(t)
    \/ \E b \in DOMAIN bcs, c \in Conns : DeliverLock(b, c)
    \/ \E b \in DOMAIN bcs, c \in Conns : DeliverOpen(b, c)
    \/ \E b \in DOMAIN bcs, c \in Conns : DeliverWrite(b, c)
    \/ \E b \in DOMAIN bcs : BroadcastReturn(b)
    \/ \E c \in Conns, k \in Conns : SendToCall(c, k)
    \/ SendToOpen
    \/ SendToWrite
    \/ SendToReturn

Spec == Init /\ [][Next]_vars

\* The scheduling the Go runtime gives the engine: a goroutine that can take
\* a step takes it, a callback that was called returns (or panics), a select
\* with two ready cases takes each of them in the end (strong fairness for
\* the exit of the tick loop, which a tick can pre-empt).  Nothing makes a
\* peer act: that it connects, opens a stream, ends its message or closes the
\* session is left to it, and so is every call the application chooses to
\* make.  A read on a closed session fails at once.
Fairness ==
    /\ WF_vars(StopCloseConns)
    /\ WF_vars(StopReturn)
    /\ WF_vars(StopAgainReturn)
    /\ WF_vars(AcceptExit)
    /\ WF_vars(TickFire)
    /\ WF_vars(TickReturn)
    /\ SF_vars(TickExit)
    /\ \A c \in Conns :
        /\ WF_vars(ClientFactoryCall(c))
        /\ WF_vars(ConnStore(c))
        /\ WF_vars(ConnOnConnReturn(c))
        /\ WF_vars(StreamAcceptErr(c))
        /\ WF_vars(ConnOnDiscReturn(c))
    /\ \A c \in Conns, s \in Streams :
        /\ WF_vars(StreamRead(c, s) /\ ~alive[c])
        /\ WF_vars(OnMsgReturn(c, s))
    /\ \A b \in 1..MaxBroadcasts, c \in Conns :
        /\ WF_vars(b \in DOMAIN bcs /\ DeliverLock(b, c))
        /\ WF_vars(b \in DOMAIN bcs /\ DeliverOpen(b, c))
        /\ WF_vars(b \in DOMAIN bcs /\ DeliverWrite(b, c))
    /\ \A b \in 1..MaxBroadcasts : WF_vars(b \in DOMAIN bcs /\ BroadcastReturn(b))
    /\ WF_vars(SendToOpen)
    /\ WF_vars(SendToWrite)
    /\ WF_vars(SendToReturn)

FairSpec == Spec /\ Fairness

----------------------------------------------------------------------------
\* Specifications of single concerns, each with the operations it is about.

\* The "plain" application sends nothing and its factory and callbacks
\* return; it sets any of its callback slots and leaves the others unset.
\* Its peers send messages of two types, one without a type, bytes that are
\* no message, and streams that break.  It calls Start once and Stop once.
PlainInit ==
    /\ cfg \in Configs({"generic", "legacy"}, {"plain"}, {ExampleTickRate},
                       SUBSET Slots)
    /\ Constructed

PlainNext ==
    \/ Start
    \/ StopCancel
    \/ StopCloseConns
    \/ StopReturn
    \/ \E c \in Conns : AcceptConn(c)
    \/ AcceptExit
    \/ TimerFire
    \/ TickFire
    \/ TickReturn
    \/ TickExit
    \/ \E c \in Conns : ClientFactoryCall(c)
    \/ \E c \in Conns : ConnStore(c)
    \/ \E c \in Conns : ConnOnConnReturn(c)
    \/ \E c \in Conns, s \in Streams : StreamAccept(c, s)
    \/ \E c \in Conns : StreamAcceptErr(c)
    \/ \E c \in Conns : ConnOnDiscReturn(c)
    \/ \E c \in Conns : PeerClose(c)
    \/ \E c \in Conns, s \in Streams : StreamRead(c, s)
    \/ \E c \in Conns, s \in Streams : OnMsgReturn(c, s)

PlainSpec == PlainInit /\ [][PlainNext]_vars

\* The server made with each tick rate of TickRates, and its tick loop.
TickRateInit ==
    /\ cfg \in Configs({"generic", "legacy"}, {"plain"}, TickRates,
                       {Slots, SlotsOf("legacy")})
    /\ cbs = SlotsOf(impl)
    /\ Constructed

TickRateNext ==
    \/ Start
    \/ TimerFire
    \/ TickFire
    \/ TickReturn

TickRateSpec == TickRateInit /\ [][TickRateNext]_vars

\* The generic server started once or twice and stopped, and its loops.
TwiceInit ==
    /\ cfg \in Configs({"generic"}, {"plain"}, {ExampleTickRate}, SUBSET Slots)
    /\ Constructed

TwiceNext ==
    \/ Start
    \/ StartAgain
    \/ StopCancel
    \/ StopReturn
    \/ AcceptExit
    \/ Accept2Exit
    \/ TimerFire
    \/ TickFire
    \/ TickReturn
    \/ TickExit
    \/ Timer2Fire
    \/ Tick2Fire
    \/ Tick2Return
    \/ Tick2Exit

TwiceSpec == TwiceInit /\ [][TwiceNext]_vars

\* The generic server while connections come and go and the application
\* enumerates its clients once.
EnumInit ==
    /\ cfg \in Configs({"generic"}, {"plain"}, {ExampleTickRate}, {Slots})
    /\ Constructed

EnumNext ==
    \/ Start
    \/ \E c \in Conns : AcceptConn(c)
    \/ \E c \in Conns : ClientFactoryCall(c)
    \/ \E c \in Conns : ConnStore(c)
    \/ \E c \in Conns : ConnOnConnReturn(c)
    \/ \E c \in Conns : StreamAcceptErr(c)
    \/ \E c \in Conns : ConnOnDiscReturn(c)
    \/ \E c \in Conns : PeerClose(c)
    \/ GetClientsCall
    \/ \E k \in Conns : GetClientsVisit(k)
    \/ GetClientsReturn

EnumSpec == EnumInit /\ [][EnumNext]_vars

\* The clients the application makes and names, apart from any server task.
ClientInit ==
    /\ cfg \in Configs({"generic"}, {"plain"}, {ExampleTickRate}, {Slots})
    /\ Constructed

ClientNext ==
    \/ \E c \in Conns : NewClient(c)
    \/ \E c \in Conns, id \in IDs : SetID(c, id)

ClientSpec == ClientInit /\ [][ClientNext]_vars

----------------------------------------------------------------------------
\* Properties.

\* A Broadcast call is over: it has returned and none of its deliveries is
\* still waiting or running.
Finished(b) == bcs[b].returned /\ \A c \in Conns : bcs[b].dl[c] \notin InFlight

\* The connections a Broadcast call tried to open a stream on.
AttemptedBy(b) == {c \in Conns : bcs[b].dl[c] \in Attempted}

\* No per-connection task is between its start and its stream loop, or
\* between a failed stream accept and its return; no closure or cancellation
\* is waiting to be seen by a stream loop.
Quiescent ==
    \A c \in Conns :
        /\ connPc[c] \in {"unaccepted", "loop", "done"}
        /\ connPc[c] = "loop" => alive[c] /\ ~cancelled

OpenConns == {c \in Conns : connPc[c] = "loop"}

\* C1: when Stop has returned, no task the server spawned is still running
\* (accept loop, tick loop, per-connection loops, stream workers, broadcast
\* deliveries).
C1_StopJoinsEveryTask == stopPc = "returned" => ActiveTasks = 0

\* C2: at every quiescent point the registry holds exactly the open
\* connections: as many entries as open connections, each of them one.
C2_RegistryMatchesOpenConns ==
    Quiescent =>
        /\ Registered = OpenConns
        /\ Cardinality({k \in Conns : conns[k] # NoConn}) = Cardinality(OpenConns)

\* C3: at the moment the disconnect callback of a connection starts, the
\* registry no longer holds that connection.
C3_UnregisteredBeforeOnDisc ==
    [][\A c \in Conns :
        (connPc[c] # "inOnDisc" /\ connPc'[c] = "inOnDisc")
            => \A k \in Conns : conns'[k] # c]_vars

\* C4: from the start of the connect callback to the return of the
\* disconnect callback, a lookup of the connection finds its client.
C4_EntryFromOnConnToOnDisc ==
    \A c \in Conns :
        connPc[c] \in {"inOnConn", "loop", "inOnDisc"} => GetClientByConn(c)

\* C5: no broadcast delivery opens a stream on a connection whose disconnect
\* callback has started.
C5_NoDeliveryAfterOnDisc ==
    [][\A b \in DOMAIN bcs : \A c \in Conns :
        (bcs[b].dl[c] \in {"pending", "opening"}
            /\ bcs'[b].dl[c] \in {"writing", "failed"})
            => connPc[c] \notin {"inOnDisc", "done"}]_vars

\* C6 as stated: a broadcast issued with K clients registered, the registry
\* unchanged during the call, opens a stream on exactly K connections.
C6_BroadcastAttemptsK ==
    \A b \in DOMAIN bcs :
        (Finished(b) /\ ~bcs[b].changed)
            => Cardinality(AttemptedBy(b)) = Cardinality(bcs[b].reg)

\* C6 amended: the same, for a message the generic engine can encode; the
\* connections it opens a stream on are then exactly the K registered ones.
C6_BroadcastAttemptsKEncodable ==
    \A b \in DOMAIN bcs :
        (Finished(b) /\ ~bcs[b].changed /\ (impl = "generic" => bcs[b].enc))
            => /\ Cardinality(AttemptedBy(b)) = Cardinality(bcs[b].reg)
               /\ AttemptedBy(b) = bcs[b].reg

C6_Witness ==
    \E b \in DOMAIN bcs :
        /\ Finished(b) /\ ~bcs[b].changed /\ bcs[b].enc
        /\ impl = "generic"
        /\ bcs[b].reg = Conns
        /\ AttemptedBy(b) = Conns

\* C7: a delivery that fails does not keep the broadcast from attempting the
\* other registered connections, and raises nothing in the calling task: the
\* step in which a delivery fails leaves the other deliveries, and the
\* process, as they were.
C7_FailedDeliveryIsolated ==
    /\ [](\A b \in DOMAIN bcs :
            (Finished(b) /\ ~bcs[b].changed /\ \E i \in Conns : bcs[b].dl[i] = "failed")
                => \A j \in bcs[b].reg : bcs[b].dl[j] \in Attempted)
    /\ [][\A b \in DOMAIN bcs : \A i \in Conns :
            (bcs[b].dl[i] # "failed" /\ bcs'[b].dl[i] = "failed")
                => /\ fault' = fault
                   /\ \A j \in Conns \ {i} : bcs'[b].dl[j] = bcs[b].dl[j]]_vars

C7_Witness ==
    \E b \in DOMAIN bcs : \E i, j \in Conns :
        /\ Finished(b) /\ ~bcs[b].changed
        /\ bcs[b].dl[i] = "failed"
        /\ bcs[b].dl[j] = "ok"
        /\ bcs[b].caller = TickCaller

\* C8: a delivery that is blocked does not hold back the delivery to another
\* client of the same broadcast: that one can take its next step now.
C8_BlockedDeliveryDelaysNoOther ==
    \A b \in DOMAIN bcs : \A i, j \in Conns :
        (/\ Running
         /\ i # j
         /\ bcs[b].dl[i] \in {"opening", "writing"}
         /\ bcs[b].dl[j] = "pending"
         /\ ~StreamMtxHeld(j))
            => ENABLED (DeliverLock(b, j) \/ DeliverOpen(b, j))

\* C9: Broadcast does not wait for its deliveries: while one of them is still
\* writing, the call has returned to its caller.
C9_BroadcastDoesNotWait ==
    \A b \in DOMAIN bcs :
        (\E c \in Conns : bcs[b].dl[c] \in {"opening", "writing"}) => bcs[b].returned

\* C10: a connection whose client factory raised is not among GetClients()
\* and no stream of it was ever dispatched to the message callback.
C10_FailedFactoryNeverServed ==
    \A c \in Conns :
        fault = <<"factory", c>>
            => /\ c \notin GetClients
               /\ \A s \in Streams : strm[c][s] = "none"

C10_Witness ==
    \E c, d \in Conns :
        /\ fault = <<"factory", c>>
        /\ d \in GetClients
        /\ \E s \in Streams : strm[d][s] = "inOnMsg"


\* The tasks of the server other than the one of connection c can go on: the
\* accept loop can hand over a waiting connection, the tick loop can take a
\* tick that is due, a connection's task in its connect callback can return
\* from it.
OthersKeepRunning(c) ==
    /\ \A d \in Conns :
        (acceptPc = "running" /\ connPc[d] = "unaccepted") => ENABLED AcceptConn(d)
    /\ (tickPc = "wait" /\ tickPending) => ENABLED TickFire
    /\ \A d \in Conns \ {c} :
        connPc[d] = "inOnConn" => ENABLED ConnOnConnReturn(d)

\* C11: when the client factory or the connect callback of a connection
\* raises, that connection never enters its stream loop, and the accept loop,
\* the tick loop and the other connections' tasks keep running.
C11_ConnectFailureIsolated ==
    \A c \in Conns :
        (fault = <<"factory", c>> \/ fault = <<"onConn", c>>)
            => /\ connPc[c] \in {"factory", "inOnConn"}
               /\ OthersKeepRunning(c)

\* C12: when the message callback raises in one stream worker, the owning
\* connection stays registered and can accept its next stream, the other
\* workers can finish, and the accept loop and the tick loop keep running.
C12_MessageFailureIsolated ==
    \A c \in Conns :
        fault = <<"onMsg", c>>
            => /\ GetClientByConn(c)
               /\ OthersKeepRunning(c)
               /\ \A d \in Conns, s \in Streams :
                    strm[d][s] = "reading" => ENABLED StreamRead(d, s)
               /\ \A s \in Streams :
                    (connPc[c] = "loop" /\ alive[c] /\ strm[c][s] = "none")
                        => ENABLED StreamAccept(c, s)


\* C13: a read error or a decode error on a stream ends only that stream's
\* worker.  The step leaves the registry, every connection's position and
\* session, the other workers and the process as they were and calls no
\* callback; the aborted worker never reaches the message callback; and the
\* connection, if it is still open, goes on serving its other streams, those
\* in flight and the next one it accepts.
C13_ReadErrorAbortsOnlyWorker ==
    /\ [][\A c \in Conns, s \in Streams :
            (strm[c][s] = "reading" /\ strm'[c][s] = "aborted")
                => /\ conns' = conns
                   /\ connPc' = connPc
                   /\ alive' = alive
                   /\ fault' = fault
                   /\ \A d \in Conns, r \in Streams :
                        <<d, r>> # <<c, s>> => strm'[d][r] = strm[d][r]]_vars
    /\ [][\A c \in Conns, s \in Streams :
            strm[c][s] = "aborted" => strm'[c][s] = "aborted"]_vars
    /\ [](\A c \in Conns, s \in Streams :
            (Running /\ strm[c][s] = "aborted" /\ connPc[c] = "loop" /\ alive[c])
                => /\ \A r \in Streams :
                        strm[c][r] = "reading" => ENABLED StreamRead(c, r)
                   /\ (NextStream(c) # 0 /\ StreamsOpened < InboundLimit)
                        => ENABLED StreamAccept(c, NextStream(c)))

C13_Witness ==
    \E c \in Conns :
        /\ strm[c][1] = "aborted"
        /\ strm[c][2] = "inOnMsg"
        /\ connPc[c] = "loop"
        /\ alive[c]
        /\ GetClientByConn(c)


\* C14: under fair scheduling, with callbacks that return, a Stop that has
\* been called on a started server returns (or the process has ended), also
\* when a stream worker is reading a stream whose peer has not ended its
\* message.
C14_StopReturns == (stopPc = "waiting") ~> (stopPc = "returned" \/ ~Running)


\* The tasks the WaitGroup counts that have not terminated.
JoinedTasks ==
    (IF acceptPc = "running" THEN 1 ELSE 0)
    + (IF tickPc \in {"wait", "inTick"} THEN 1 ELSE 0)
    + Cardinality({c \in Conns : ConnTaskActive(c)})
    + Cardinality({cs \in Conns \X Streams : StreamTaskActive(cs[1], cs[2])})

\* C15: a second call of Stop raises nothing, calls no callback and leaves
\* the registry alone; made after the first call has returned it changes
\* nothing at all and returns at once; when it has returned no task the
\* server joins is running.
C15_SecondStopChangesNothing ==
    /\ [][stop2Pc' # stop2Pc
            => /\ fault' = fault
               /\ conns' = conns
               /\ connPc' = connPc
               /\ strm' = strm
               /\ tickPc' = tickPc]_vars
    /\ [][(stop2Pc' # stop2Pc /\ stopPc = "returned" /\ ~restarted)
            => UNCHANGED <<cfgVars, fault, started, startErr, cancelled, stopPc,
                           restarted, wg, acceptPc, tickVars, connPc,
                           closeErr, conns, clientsMutex, loops2, strm, closes, onMsgCalls, bcs, snd, gc, ids>>]_vars
    /\ []((Running /\ stop2Pc = "waiting" /\ stopPc = "returned" /\ ~restarted)
            => ENABLED StopAgainReturn)
    /\ []((stop2Pc = "returned" /\ ~restarted) => JoinedTasks = 0)

C15_Witness ==
    /\ stopPc = "returned"
    /\ stop2Pc = "returned"
    /\ ~restarted
    /\ \E c \in Conns : connPc[c] = "done" /\ strm[c][1] = "done"

\* C16: once Stop has returned no tick callback is running, and none is
\* started any more.
C16_NoTickAfterStopReturned == stopPc = "returned" => tickPc # "inTick"

\* C17: after Stop has been called, no step starts the tick callback again,
\* whatever the application calls next.
C17_NoTickOnceStopCalled ==
    [][stopPc # "idle" => ~(tickPc # "inTick" /\ tickPc' = "inTick")]_vars

C19_SendToFindsExactlyTheRegistered ==
    [][/\ (snd.st = "idle" /\ snd'.st # "idle") =>
            IF conns[snd'.id] = NoConn
            THEN snd'.st = "notfound" /\ snd'.to = NoConn
            ELSE snd'.st = "pending" /\ snd'.to = conns[snd'.id]
       /\ (snd.st = "notfound" /\ snd' # snd) =>
            snd'.st = "idle"
       /\ (snd.st \in {"pending", "writing"} /\ snd' # snd) =>
            /\ snd'.st \in {"writing", "ok", "failed"}
            /\ snd'.to = snd.to
            /\ snd.to # NoConn
      ]_vars

\* C19 witness: a SendTo call in the connect callback of a connection found
\* its own identifier unregistered, after the teardown of another connection
\* of the same address deleted the entry, and attempted nothing.
C19_Witness ==
    /\ snd.st = "notfound"
    /\ snd.id = connKey[snd.caller]
    /\ \E d \in Conns \ {snd.caller} :
        connKey[d] = snd.id /\ connPc[d] \in {"inOnDisc", "done"}

\* C20, as stated: whenever the per-connection loop can get an error from
\* AcceptStream, and so invoke the disconnect callback, the error is not nil;
\* and unless the session was closed from the remote side (peer close,
\* transport error, idle timeout), that is on shutdown, it is the
\* cancellation error.
C20_ShutdownCauseIsCancellation ==
    \A c \in Conns :
        connPc[c] = "loop" =>
            /\ "nil" \notin AcceptStreamErrors(c)
            /\ closeErr[c] # "remote" => AcceptStreamErrors(c) \subseteq {"canceled"}

\* C20, amended: whenever the per-connection loop can get an error from
\* AcceptStream, and so invoke the disconnect callback, the error is not nil:
\* it is the close error of the session or the cancellation error.  On an
\* open session it is the cancellation error of a shutdown; a session the
\* server closed itself was closed by Stop of the legacy engine, and its
\* disconnect callback gets that close error or the cancellation error.
C20_DisconnectCauseNonNil ==
    \A c \in Conns :
        connPc[c] = "loop" =>
            /\ AcceptStreamErrors(c) \subseteq {"remote", "local", "canceled"}
            /\ alive[c] => AcceptStreamErrors(c) \subseteq {"canceled"}
            /\ ~alive[c] => closeErr[c] \in AcceptStreamErrors(c)
            /\ closeErr[c] = "local" => impl = "legacy" /\ cancelled

\* C20 witness: a disconnect callback is running on a session that is still
\* open, after a shutdown cancelled the context: its cause was the
\* cancellation error.
C20_Witness ==
    \E c \in Conns :
        connPc[c] = "inOnDisc" /\ alive[c] /\ cancelled

\* C22: a registration under an identity the registry already holds leaves
\* the existing entry as it is.
C22_DuplicateRegisterKeepsEntry ==
    [][\A c \in Conns :
        (connPc[c] = "store" /\ connPc'[c] # "store"
            /\ conns[connKey[c]] # NoConn)
            => conns'[connKey[c]] = conns[connKey[c]]]_vars

\* C28: when the task of a connection has terminated, none of the stream
\* workers it spawned is still reading, decoding or in the message callback.
C28_ConnTaskOutlivesNoWorker ==
    \A c \in Conns :
        connPc[c] = "done" => \A s \in Streams : ~StreamTaskActive(c, s)

\* C29: while the server's context is cancelled, no step spawns the task of a
\* connection, calls the client factory or the connect callback, or spawns a
\* stream worker.
C29_NoNewWorkAfterCancel ==
    [][cancelled =>
        \A c \in Conns :
            /\ ~(connPc[c] = "unaccepted" /\ connPc'[c] # "unaccepted")
            /\ ~(connPc[c] = "factory" /\ (connPc'[c] # "factory" \/ fault' # fault))
            /\ ~(connPc[c] # "inOnConn" /\ connPc'[c] = "inOnConn")
            /\ \A s \in Streams : ~(strm[c][s] = "none" /\ strm'[c][s] # "none")]_vars

\* C30: while the message callback of one stream of a connection has not
\* returned, the loop of that connection, if the session is open, accepts the
\* next stream the peer opens; every other worker, of this connection or of
\* another, can end its read, and one in its callback can return from it; the
\* loop of every other open connection accepts its next stream.
C30_LoopNotBlockedByCallback ==
    \A c \in Conns, s \in Streams :
        (Running /\ strm[c][s] = "inOnMsg") =>
            /\ \A d \in Conns :
                (connPc[d] = "loop" /\ alive[d] /\ NextStream(d) # 0
                    /\ StreamsOpened < InboundLimit)
                    => ENABLED StreamAccept(d, NextStream(d))
            /\ \A d \in Conns, r \in Streams :
                <<d, r>> # <<c, s>> =>
                    /\ strm[d][r] = "reading" => ENABLED StreamRead(d, r)
                    /\ (strm[d][r] = "inOnMsg" /\ ~InBroadcast(<<d, r>>))
                        => ENABLED OnMsgReturn(d, r)

\* C30 witness: the worker of the second stream of a connection has run to
\* its end, the message callback of the first stream has not returned, and
\* the loop of the connection goes on.
C30_Witness ==
    \E c \in Conns :
        /\ strm[c][1] = "inOnMsg"
        /\ strm[c][2] = "done"
        /\ connPc[c] = "loop"

\* C24: when the address binding or the creation of the listener has failed,
\* the error is with the caller and the server is not running: while the
\* failure stands no accept loop, no tick loop and no task of a connection
\* exists, the WaitGroup counts nothing, the registry is empty and no
\* callback is or was running.
C24_FailedStartSpawnsNothing ==
    startErr # "none" =>
        /\ ~started
        /\ acceptPc = "none"
        /\ tickPc = "none"
        /\ wg = 0
        /\ Registered = {}
        /\ \A c \in Conns :
            /\ connPc[c] = "unaccepted"
            /\ \A s \in Streams : strm[c][s] = "none"

\* C24 witness: the listener could not be made and the caller holds the error.
C24_Witness == startErr = "listen" /\ ~started /\ Running

\* C27: for every tick rate the server can be made with, the tick period is
\* a strictly positive duration, one second divided by the tick rate, and
\* neither the constructor nor the creation of the ticker fails.
C27_TickPeriodPositive ==
    /\ fault[1] \notin {"new", "ticker"}
    /\ tps > 0
    /\ tps = TickPeriod(tickRate)

\* C26: once SetID has been called on a client, a later call leaves the
\* identifier GetID returns as it was.
C26_SetIDOnce ==
    [][\A c \in DOMAIN ids :
        (ids[c].n >= 1 /\ ids'[c].n > ids[c].n)
            => GetID(c)' = GetID(c)]_vars

\* C23: the clients GetClients returns are the content the registry had at
\* one moment between the call and its return.
C23_EnumerationIsASnapshot ==
    gc.st = "returned" => gc.out \in gc.hist

\* C21: whatever callback slots the application leaves unset, the engine
\* never faults, no callback runs for an unset slot, and where a callback
\* that does nothing would return the engine takes that same step: into the
\* stream loop after the registration, to the end of the connection task
\* after the disconnect, to the close of the stream after the message, back
\* to the ticker after the tick.
C21_UnsetSlotIsNoOp ==
    /\ Running
    /\ \A x \in onMsgCalls : "onMsg" \in cbs
    /\ ("onTick" \notin cbs /\ tickPc = "inTick") => ENABLED TickReturn
    /\ \A c \in Conns :
        /\ ("onConn" \notin cbs /\ connPc[c] = "inOnConn")
                => ENABLED ConnOnConnReturn(c)
        /\ ("onDisc" \notin cbs /\ connPc[c] = "inOnDisc")
                => ENABLED ConnOnDiscReturn(c)
        /\ \A s \in Streams :
            ("onMsg" \notin cbs /\ strm[c][s] = "inOnMsg")
                => ENABLED OnMsgReturn(c, s)

\* The server with no slot set has served a connection and a message, has
\* ticked, and its Stop has returned.
C21_Witness ==
    /\ cbs = {}
    /\ impl = "generic"
    /\ stopPc = "returned"
    /\ tickPc = "done"
    /\ \E c \in Conns : connPc[c] = "done" /\ strm[c][1] = "done"

\* The type a payload carries.
Carried(data) ==
    IF data = Ping THEN "ping" ELSE IF data = Move THEN "move" ELSE ""

\* C25: a stream that is read to its end and whose bytes decode has the
\* message callback called for it, once, with the client of the stream's
\* connection and the type the bytes carry: the read of such a stream is
\* the call, nothing else calls the callback, and a stream is read once.
C25_OnMsgOncePerDecodedStream ==
    /\ [][\A c \in Conns, s \in Streams :
            /\ (strm[c][s] # "inOnMsg" /\ strm'[c][s] = "inOnMsg")
                    => strm[c][s] = "reading"
            /\ strm[c][s] \in {"inOnMsg", "done", "aborted"}
                    => strm'[c][s] # "reading"
            /\ \A data \in {Ping, Move, NoType} :
                ("onMsg" \in cbs /\ alive[c] /\ StreamReadData(c, s, data))
                    => /\ strm'[c][s] = "inOnMsg"
                       /\ \A x \in onMsgCalls : x.w # <<c, s>>
                       /\ onMsgCalls' = onMsgCalls \cup
                            {[w |-> <<c, s>>, cl |-> c, ty |-> Carried(data)]}]_vars
    /\ [](\A c \in Conns, s \in Streams :
            /\ Cardinality({x \in onMsgCalls : x.w = <<c, s>>}) <= 1
            /\ "onMsg" \in cbs
                => (strm[c][s] = "inOnMsg"
                        <=> \E x \in onMsgCalls : x.w = <<c, s>> /\ x.cl = c)
            /\ (Running /\ strm[c][s] = "reading" /\ alive[c])
                => \A data \in {Ping, Move, NoType} :
                        ENABLED StreamReadData(c, s, data))

\* The callback runs for a stream that carried a message of type "move".
C25_Witness ==
    \E x \in onMsgCalls :
        /\ x.ty = "move"
        /\ x.cl = x.w[1]
        /\ strm[x.w[1]][x.w[2]] = "inOnMsg"

\* C31: the generic engine calls the client factory once for each accepted
\* connection: the call is the first step of the connection's task, a task
\* is started once for a connection, and the registration and the connect
\* callback come only after the factory has returned.
C31_FactoryOncePerConn ==
    /\ [][connPc' = connPc \/ \A c \in Conns :
            /\ connPc'[c] = "factory" => connPc[c] \in {"unaccepted", "factory"}
            /\ connPc[c] # "unaccepted" => connPc'[c] # "unaccepted"
            /\ (impl = "generic" /\ connPc'[c] = "store")
                    => connPc[c] \in {"factory", "store"}
            /\ connPc'[c] = "inOnConn" => connPc[c] \in {"store", "inOnConn"}]_vars
    /\ [](\A c \in Conns :
            (impl = "generic" /\ connPc[c] \in {"unaccepted", "factory"})
                => ~GetClientByConn(c))

\* A connection of the generic engine is registered and in its connect
\* callback, after its factory call.
C31_Witness ==
    \E c \in Conns :
        impl = "generic" /\ connPc[c] = "inOnConn" /\ GetClientByConn(c)

\* C32: the worker of an accepted stream closes the stream once, on each of
\* its paths: a worker that has returned, after a read error, a decode error
\* or the return of the message callback, has closed it once, and a worker
\* that is reading or whose callback has not returned has not closed it.
C32_StreamClosedOnce ==
    \A c \in Conns, s \in Streams :
        /\ closes[c][s] <= 1
        /\ strm[c][s] \in {"done", "aborted"} => closes[c][s] = 1
        /\ (Running /\ strm[c][s] \in {"none", "reading", "inOnMsg"})
                => closes[c][s] = 0

\* One stream of a connection was closed after its read failed, another
\* after its message callback returned, and a callback is still running.
C32_Witness ==
    \E c, d \in Conns :
        /\ strm[c][1] = "aborted" /\ closes[c][1] = 1
        /\ strm[d][2] = "done" /\ closes[d][2] = 1
        /\ Running

\* C33: the registry's lock is held for one map operation only, so it is
\* free in every state between two steps, in particular while a connect,
\* disconnect, message or tick callback runs; a callback that calls
\* Broadcast or SendTo therefore takes the lock at once, whatever Stop and
\* the other tasks are doing.
C33_RegistryLockFreeInCallbacks ==
    /\ clientsMutex = NoConn
    /\ Running =>
        /\ \A t \in Callers :
            (/\ app = "fanout"
             /\ InCallback(t)
             /\ ~InBroadcast(t)
             /\ Len(bcs) < MaxBroadcasts) => ENABLED BroadcastCall(t)
        /\ \A c, k \in Conns :
            (/\ impl = "legacy"
             /\ app = "sender"
             /\ "onConn" \in cbs
             /\ connPc[c] = "inOnConn"
             /\ snd.st = "idle"
             /\ snd.n < MaxSends) => ENABLED SendToCall(c, k)

\* A connect callback of the legacy engine has called SendTo, which took the
\* lock for its lookup, while Stop was in progress and another connection's
\* task was past its own store under the lock.
C33_Witness ==
    \E c, d \in Conns :
        /\ impl = "legacy"
        /\ stopPc \in {"closing", "waiting"}
        /\ connPc[c] = "inOnConn"
        /\ snd.caller = c
        /\ snd.st = "pending"
        /\ d # c
        /\ connPc[d] \in {"inOnConn", "loop", "inOnDisc"}
        /\ Running

\* C34: the disconnect callback is called once per connection whose connect
\* callback was called: a connection's task enters it from its stream loop
\* only, leaves it only by returning, and is never started again; and when
\* a call of Stop returns, the task of every connection whose connect
\* callback was called has called the disconnect callback and returned.
C34_OnDiscOncePerConnectedClient ==
    [][(connPc' = connPc /\ stopPc' = stopPc /\ stop2Pc' = stop2Pc)
        \/ \A c \in Conns :
            /\ (connPc'[c] = "inOnDisc" /\ connPc[c] # "inOnDisc")
                    => connPc[c] = "loop"
            /\ connPc[c] = "inOnDisc" => connPc'[c] \in {"inOnDisc", "done"}
            /\ connPc[c] = "done" => connPc'[c] = "done"
            /\ connPc[c] \in {"inOnConn", "loop"}
                    => connPc'[c] \in {"inOnConn", "loop", "inOnDisc"}
            /\ (\/ stopPc # "returned" /\ stopPc' = "returned"
                \/ stop2Pc # "returned" /\ stop2Pc' = "returned")
                    => connPc'[c] \notin {"inOnConn", "loop", "inOnDisc"}]_vars

\* Stop has returned on a server with both callbacks set, after the tasks
\* of two connections went through the connect and disconnect callbacks.
C34_Witness ==
    /\ stopPc = "returned"
    /\ ~restarted
    /\ {"onConn", "onDisc"} \subseteq cbs
    /\ \A c \in Conns : connPc[c] = "done"
    /\ Running

\* C35: the connect callback of a connection has returned before a message
\* callback for its client begins: a stream worker of the connection exists,
\* and a message callback with its client runs, only once the connection's
\* task is past its connect callback.
C35_OnConnReturnedBeforeOnMsg ==
    /\ \A c \in Conns, s \in Streams :
            strm[c][s] # "none" => connPc[c] \in {"loop", "inOnDisc", "done"}
    /\ \A x \in onMsgCalls : connPc[x.cl] \in {"loop", "inOnDisc", "done"}

\* With the connect and message callbacks set, a message callback runs for
\* one connection while the connect callback of another is still running.
C35_Witness ==
    \E c, d \in Conns, s \in Streams :
        /\ {"onConn", "onMsg"} \subseteq cbs
        /\ strm[c][s] = "inOnMsg"
        /\ \E x \in onMsgCalls : x.cl = c
        /\ connPc[c] = "loop"
        /\ connPc[d] = "inOnConn"
        /\ Running

\* C36: no message callback for a client begins after the disconnect
\* callback of its connection has returned.
C36_NoOnMsgAfterOnDiscReturned ==
    [][strm' = strm \/ \A c \in Conns, s \in Streams :
        (/\ strm[c][s] # "inOnMsg"
         /\ strm'[c][s] = "inOnMsg"
         /\ {"onMsg", "onDisc"} \subseteq cbs) => connPc[c] # "done"]_vars

\* C37: once Stop has returned, and until the server is started again, the
\* registry is empty: no key holds a client, so GetClients has nothing to
\* return and Broadcast nothing to deliver to.
C37_RegistryEmptyAfterStop ==
    (stopPc = "returned" /\ ~restarted) =>
        /\ \A k \in Conns : conns[k] = NoConn
        /\ GetClients = {}
        /\ RangeEntries = {}

\* Stop has returned after both connections were registered and served, in
\* the generic engine, whose task deletes its entry as its last statement.
C37_Witness ==
    /\ impl = "generic"
    /\ stopPc = "returned"
    /\ ~restarted
    /\ \A c \in Conns : connPc[c] = "done" /\ closeErr[c] = "none"
    /\ Registered = {}

\* C38: at any time the server has at most one accept loop and at most one
\* tick loop, whatever the calls of Start and Stop.
C38_OneAcceptLoopOneTickLoop ==
    /\ ~(acceptPc = "running" /\ loops2.accept = "running")
    /\ ~(tickPc \in {"wait", "inTick"} /\ loops2.tick \in {"wait", "inTick"})

\* C39: Stop called on a server that is not running, because Start was never
\* called or because it returned an error, completes without a fault.
C39_StopBeforeRunningCompletes ==
    ~started => fault[1] # "stop"

====
